---- MODULE Spec2Model ----
(***************************************************************************)
(* Audio-chunk processing pipeline of custom_ai_translator_suggestion.     *)
(*                                                                         *)
(* Part 1: ProcessingQueue (src/src/middleware/static.middleware.js,       *)
(*         class ProcessingQueue, lines 239-398), with opaque tasks:       *)
(*         specification Spec.                                             *)
(* Part 2: the per-segment pipeline and the recording session on top of    *)
(*         the same queue: specification SpecPipeline.                     *)
(*                                                                         *)
(* Every action is one synchronous run of the JavaScript event loop: code  *)
(* between two awaits runs without interleaving, so an action carries a    *)
(* handler from its entry (or from the resumption of an await) to its next *)
(* await or its return.                                                    *)
(***************************************************************************)
EXTENDS Integers, Sequences, FiniteSets, TLC

\* ------------------------------------------------------------- bounds ----
\* Largest maxConcurrent / maxQueueSize the configurations are drawn from,
\* and the number of enqueue calls explored.
MaxConc == 2
MaxQSize == 3
MaxTasks == 6

TaskIds == 1..MaxTasks

VARIABLES
    maxConcurrent,  \* this.maxConcurrent
    maxQueueSize,   \* this.maxQueueSize
    queue,          \* this.queue: sequence of task ids, head = oldest
    processing,     \* this.processing: set of task ids in flight
    stats,          \* this.stats
    promise,        \* per task: state of the promise enqueue() returned
    taskPc,         \* per task: where the task closure stands
    startLog,       \* task ids in the order item.task() was invoked
    waiter,         \* one caller of waitForCompletion(): where it stands, and
                    \* whether its loop body (the 100 ms sleep) has run
    \* ---- SocketHandler state and services (Part 2)
    isProcessing,   \* state.isProcessing
    isStopping,     \* state.isStopping
    vadEnabled,     \* state.vadEnabled !== false
    capture,        \* audioCapture.isRecording
    meeting,        \* meetingHistory.currentMeeting is not null
    history,        \* chunk ids whose fragment was pushed to a meeting
    events,         \* per chunk: the events emitted to the sink for it
    stopPc,         \* where handleStopRecording stands
    admittedAtStop, \* ids enqueued before the stop request being handled
    cleanup,        \* config.audio.cleanup
    deleted,        \* chunk ids whose audio file has been unlinked
    noVoice,        \* chunk ids the VAD answered hasVoice false for
    \* ---- SuggestionService, the batcher (Part 3)
    transcriptionBuffer,    \* this.transcriptionBuffer: trimmed fragments
    lastTranscriptionTime,  \* this.lastTranscriptionTime: ms, or NoTime
    now,            \* the clock behind Date.now(), in seconds
    call,           \* the latest call of addTranscription or
                    \* checkPauseTimeout: its number, the operation, the
                    \* argument, the number of fragments the buffer held
                    \* when it was made, and the returned value
    batches,        \* the content of every batch returned so far, in order
    accepted,       \* the fragments accepted since the last flush, discard
                    \* or reset, in order
    \* ---- VADService (Part 4)
    vadConfig,      \* the thresholds of the VADService
    vadIn,          \* the file, the option and the thresholds of the latest
                    \* analyzeAudio call
    vadOut,         \* what that call did and answered
    \* ---- TranscriptionService (Part 5)
    tx              \* the _transcribeWithRetry call in progress: the segment,
                    \* the attempt, the number of backend calls made, the
                    \* latest error, and the error thrown

qvars == <<maxConcurrent, maxQueueSize, queue, processing, stats, promise,
           taskPc, startLog, waiter>>

pvars == <<isProcessing, isStopping, vadEnabled, capture, meeting, history,
           events, stopPc, admittedAtStop, cleanup, deleted, noVoice>>

bvars == <<transcriptionBuffer, lastTranscriptionTime, now, call, batches,
           accepted>>

dvars == <<vadConfig, vadIn, vadOut>>

\* The state of the two services the queue and the session handlers do not
\* touch (the session handlers reset the batcher, and say so).
tvars == <<tx>>

svars == <<bvars, dvars, tvars>>

vars == <<qvars, pvars, svars>>

\* ------------------------------------------------------ helper operators --
SeqSet(s) == {s[i] : i \in 1..Len(s)}

\* Promise states: "none" (enqueue not yet called for this id), "pending",
\* "resolved", and the three rejections the queue can produce.
Settled == {"resolved", "rej_error", "rej_dropped", "rej_cleared"}

\* Number of enqueue calls made so far is the number of ids handed out.
Enqueued == {i \in TaskIds : promise[i] # "none"}
NextId == Cardinality(Enqueued) + 1

\* ProcessingQueue constructor.
QueueInit ==
    /\ maxConcurrent \in 1..MaxConc
    /\ maxQueueSize \in 1..MaxQSize
    /\ queue = <<>>
    /\ processing = {}
    /\ stats = [totalQueued |-> 0, totalProcessed |-> 0,
                totalDropped |-> 0, totalErrors |-> 0]
    /\ promise = [i \in TaskIds |-> "none"]
    /\ taskPc = [i \in TaskIds |-> "idle"]
    /\ startLog = <<>>
    /\ waiter = [pc |-> "idle", slept |-> FALSE]

\* enqueue(): the overflow test `this.queue.length >= this.maxQueueSize`.
QueueFullStrict(q) == Len(q) > maxQueueSize
QueueFull(q) == Len(q) >= maxQueueSize

\* enqueue(): `const oldest = this.queue.shift(); if (oldest) oldest.reject(..)`.
\* The set holds the position of the evicted item, or nothing when the queue
\* is not full or shift() found no item.
EvictNewest(q) == IF QueueFull(q) /\ Len(q) > 0 THEN {Len(q)} ELSE {}
EvictedPos(q) == IF QueueFull(q) /\ Len(q) > 0 THEN {1} ELSE {}

\* The items at the positions of q that are not in pos, in order: what
\* shift() leaves of the queue.
KeepsAll(q, pos) == q
Without(q, pos) ==
    LET keep == {i \in 1..Len(q) : i \notin pos}
        idx[n \in 0..Len(q)] ==
            IF n = 0 THEN <<>>
            ELSE IF n \in keep THEN Append(idx[n - 1], q[n]) ELSE idx[n - 1]
    IN  idx[Len(q)]

\* enqueue(): the queue after the optional shift() and the push().
AfterPush(q, id) == Append(Without(q, EvictedPos(q)), id)

\* _processNext(): the two early returns; TRUE when an item is taken.
CanProcessOffByOne(p, q) == Cardinality(p) <= maxConcurrent /\ Len(q) > 0
CanProcess(p, q) == Cardinality(p) < maxConcurrent /\ Len(q) > 0

\* _processNext(): `const item = this.queue.shift()`: the position taken.
TakeLast(q) == Len(q)
TakePos(q) == 1

\* _processNext(), finally: `this.processing.delete(item)`.
DeleteLeak(p, id) == p
AfterDelete(p, id) == p \ {id}

\* waitForCompletion(): the loop condition.
MustWaitQueueOnly(q, p) == Len(q) > 0
MustWait(q, p) == Len(q) > 0 \/ Cardinality(p) > 0

\* config.audio.cleanup: the two switches, and their values when the
\* environment sets neither variable.
CleanupPolicies ==
    [deleteAfterTranscription : BOOLEAN, keepForPlayback : BOOLEAN]

CleanupDefault ==
    [deleteAfterTranscription |-> TRUE, keepForPlayback |-> FALSE]

\* SocketHandler constructor: the shared state object and the services.
SessionInit ==
    /\ isProcessing = FALSE
    /\ isStopping = FALSE
    /\ vadEnabled = TRUE
    /\ capture = FALSE
    /\ meeting = FALSE
    /\ history = {}
    /\ events = [i \in TaskIds |-> <<>>]
    /\ stopPc = "idle"
    /\ admittedAtStop = {}
    /\ deleted = {}
    /\ noVoice = {}

PipelineInit == SessionInit /\ cleanup = CleanupDefault

\* ----------------------------------------- SuggestionService, the batcher --
\* src/src/services/SuggestionService.js, lines 5-110 and 225-236.
\* A text is known by the fragments it is made of (words: the ids of the
\* addTranscription calls they came in with), its length in characters and
\* its last character (sentence punctuation, another character, or none for
\* the empty text); an argument of addTranscription also has pad, the number
\* of white-space characters around it.

\* Program constants of the batcher.
minBatchSize == 30
pauseThreshold == 5000
MinFragmentLength == 5
SufficientContent == 100

\* null as a returned value, and as the value of lastTranscriptionTime (the
\* code tests it with `!this.lastTranscriptionTime`, which null and 0 pass
\* alike; Date.now() is never 0).
Null == [null |-> TRUE]
NoTime == 0

\* Date.now(): the clock in milliseconds.
Ms(t) == t * 1000

\* String.prototype.trim().
Trim(t) == [words |-> t.words, len |-> t.len, end |-> t.end]

EmptyText == [words |-> <<>>, len |-> 0, end |-> "none"]

\* Array.prototype.join(' ') of a buffer of fragments.
Join(buf) ==
    LET j[n \in 0..Len(buf)] ==
            IF n = 0 THEN EmptyText
            ELSE IF n = 1 THEN buf[1]
            ELSE [words |-> j[n - 1].words \o buf[n].words,
                  len |-> j[n - 1].len + 1 + buf[n].len,
                  end |-> buf[n].end]
    IN  j[Len(buf)]

\* addTranscription, line 30: `!transcribedText || trim().length < 5`.
NeverIgnored(t) == FALSE
Ignored(t) == t.len + t.pad = 0 \/ Trim(t).len < MinFragmentLength

\* addTranscription, line 34: `this.transcriptionBuffer.push(...)`.
Unshifted(buf, frag) == <<frag>> \o buf
Pushed(buf, frag) == Append(buf, frag)

\* _hasCompleteSentence: /[.!?]\s*$/ on the trimmed text.
HasCompleteSentence(text) == text.end = "punct"

\* _shouldSendBatch.
SendWithoutMinimum(text) ==
    text.len >= SufficientContent \/ HasCompleteSentence(text)
ShouldSendBatch(text) ==
    IF text.len < minBatchSize THEN FALSE
    ELSE IF text.len >= SufficientContent THEN TRUE
    ELSE HasCompleteSentence(text)

\* addTranscription, line 44, and checkPauseTimeout, line 96: the buffer
\* after a flush, `this.transcriptionBuffer = []`.
BufferKept(buf) == buf
BufferAfterFlush(buf) == <<>>

\* checkPauseTimeout, line 78: the first early return.
NothingBuffered ==
    Len(transcriptionBuffer) = 0 \/ lastTranscriptionTime = NoTime

\* checkPauseTimeout, line 86: the pause test, and line 90: the size test.
PauseIgnored == TRUE
PauseReached == Ms(now) - lastTranscriptionTime >= pauseThreshold

AnySize(text) == TRUE
Meaningful(text) == text.len >= minBatchSize

\* The constructor, lines 21-26, with the clock one second after its origin.
BatcherInit ==
    /\ transcriptionBuffer = <<>>
    /\ lastTranscriptionTime = NoTime
    /\ now = 1
    /\ call = [n |-> 0, op |-> "none", arg |-> EmptyText, held |-> 0,
               result |-> Null]
    /\ batches = <<>>
    /\ accepted = <<>>

\* clearBuffer() and clearContext(): the buffer and the time are reset.
BatcherCleared ==
    /\ transcriptionBuffer' = <<>>
    /\ lastTranscriptionTime' = NoTime
    /\ accepted' = <<>>
    /\ UNCHANGED <<now, call, batches>>

\* ------------------------------------------------------------ VADService --
\* src/src/services/SuggestionService.js, lines 261-620 (class VADService).
\* Energies are in thousandths (0.003 is 3), durations in ms, confidences in
\* tenths.  A file is known by what the code finds in it: whether it exists,
\* its extension, what the scan of its prefix meets (a read or decode
\* exception, no data chunk, or a data chunk whose first samples have energy
\* quickEnergy), and what the full read meets (an exception, an unparsable
\* header, or samples with an energy, a duration and a zero-crossing rate
\* inside or outside the speech band).

\* Math.sqrt(0 / 0) when the data chunk holds no sample in the prefix.
NaN == -1

\* IEEE comparisons: false when an operand is NaN.
GtOrEqual(a, b) == a # NaN /\ b # NaN /\ a >= b
Gt(a, b) == a # NaN /\ b # NaN /\ a > b
LtNever(a, b) == FALSE
Lt(a, b) == a # NaN /\ b # NaN /\ a < b

Min(a, b) == IF a <= b THEN a ELSE b

\* The constructor's thresholds (lines 266-268).
VadDefaults ==
    [energyThreshold |-> 3, minSpeechDuration |-> 200, silenceThreshold |-> 1]

\* No call yet, and no result.
NoCall == [none |-> TRUE]

\* No analyzeAudio call has been made.
VadInit ==
    /\ vadConfig = VadDefaults
    /\ vadIn = NoCall
    /\ vadOut = [pc |-> "idle"]

\* quickCheck(audioPath), lines 283-340.
QuickCheck(f, cfg) ==
    IF ~f.exists
    THEN [hasVoice |-> FALSE, confidence |-> 0, reason |-> "file_not_found"]
    ELSE IF ~f.wav
    THEN [hasVoice |-> TRUE, confidence |-> 5, reason |-> "non_wav_format"]
    ELSE IF f.prefix = "throws"
    THEN [needsFullVAD |-> TRUE]
    ELSE IF f.prefix = "nodata"
    THEN [hasVoice |-> TRUE, confidence |-> 5,
          reason |-> "quick_check_fallback"]
    ELSE IF Gt(f.quickEnergy, cfg.energyThreshold * 2)
    THEN [hasVoice |-> TRUE, confidence |-> 8, energy |-> f.quickEnergy,
          reason |-> "quick_check_high_energy"]
    ELSE IF Lt(f.quickEnergy, cfg.silenceThreshold)
    THEN [hasVoice |-> FALSE, confidence |-> 2, energy |-> f.quickEnergy,
          reason |-> "quick_check_low_energy"]
    ELSE [needsFullVAD |-> TRUE, energy |-> f.quickEnergy]

\* `quickResult.needsFullVAD` is undefined in a definitive result.
NeedsFullVAD(r) == "needsFullVAD" \in DOMAIN r /\ r.needsFullVAD

\* analyzeAudio, line 357: the quick result is returned as it is.
QuickNeverFinal(r) == FALSE
QuickIsFinal(r) == ~NeedsFullVAD(r)

\* _analyzeVoiceActivity(audioData), lines 474-538.
AnalyzeEnergyOnly(a, cfg) ==
    [hasVoice |-> ~a.empty /\ a.energy > cfg.energyThreshold,
     confidence |-> 0, energy |-> a.energy, duration |-> a.duration,
     reason |-> "energy_detected"]
AnalyzeVoiceActivity(a, cfg) ==
    IF a.empty
    THEN [hasVoice |-> FALSE, confidence |-> 0, energy |-> 0, duration |-> 0,
          reason |-> "empty_audio"]
    ELSE
    LET loud == a.energy > cfg.energyThreshold
        c1 == IF loud THEN 10 ELSE 0
        r1 == IF loud THEN "energy_detected" ELSE ""
        c2 == IF a.zcr THEN Min(c1 + 2, 10) ELSE c1
        r2 == IF ~a.zcr THEN r1
              ELSE IF r1 # "" THEN "energy_detected,zcr_match"
              ELSE "zcr_match"
        short == loud /\ a.duration < cfg.minSpeechDuration
        c3 == IF short THEN 0 ELSE c2
        r3 == IF short THEN "too_short" ELSE r2
        silent == a.energy < cfg.silenceThreshold /\ a.duration < 1000
    IN  [hasVoice |-> loud /\ ~short /\ ~silent,
         confidence |-> IF silent THEN 0 ELSE c3,
         energy |-> a.energy,
         duration |-> a.duration,
         reason |-> IF silent THEN "silence_detected"
                    ELSE IF r3 = "" THEN "no_voice" ELSE r3]

\* The catch of analyzeAudio, line 409.
ErrorFallback ==
    [hasVoice |-> TRUE, confidence |-> 5, reason |-> "error_fallback"]

\* analyzeAudio(audioPath, useQuickCheck), lines 348-410: the quick result
\* (or NoCall when quickCheck was not called), whether the file was read and
\* decoded in full, whether _analyzeVoiceActivity ran, and the answer.
AnalyzeAudioResult(f, useQuickCheck, cfg) ==
    LET q == QuickCheck(f, cfg)
        out(quick, decoded, analysed, r) ==
            [pc |-> "done", quick |-> quick, decoded |-> decoded,
             analysed |-> analysed, result |-> r]
        qr == IF useQuickCheck THEN q ELSE NoCall
    IN  IF ~f.exists THEN out(NoCall, FALSE, FALSE, ErrorFallback)
        ELSE IF useQuickCheck /\ QuickIsFinal(q)
        THEN out(q, FALSE, FALSE, q)
        ELSE IF ~f.wav
        THEN out(qr, FALSE, FALSE,
                 [hasVoice |-> TRUE, confidence |-> 5, energy |-> 0,
                  reason |-> "non_wav_format"])
        ELSE IF f.body = "throws" THEN out(qr, TRUE, FALSE, ErrorFallback)
        ELSE IF f.body = "unparsable"
        THEN out(qr, TRUE, FALSE,
                 [hasVoice |-> TRUE, confidence |-> 5, energy |-> 0,
                  reason |-> "parse_error"])
        ELSE out(qr, TRUE, TRUE, AnalyzeVoiceActivity(f.audio, cfg))

\* -------------------------------------------------- TranscriptionService --
\* src/src/services/TranscriptionService.js, lines 6-24 and 184-245.  An
\* error of the backend call is known by its status (NoStatus when the error
\* has none) and its code ("undefined" when it has none).
maxRetries == 3
NoStatus == 0
NoError == [status |-> NoStatus, code |-> "no error"]

\* _shouldRetry(error).
AlwaysRetry(error) == TRUE
ShouldRetry(error) ==
    \/ error.status = 429 \/ error.status >= 500
    \/ error.code \in {"ECONNRESET", "ETIMEDOUT", "ENOTFOUND"}

\* No transcription call is in progress.
TxIdle ==
    [pc |-> "idle", id |-> 0, attempt |-> 0, calls |-> 0, last |-> NoError,
     thrown |-> NoError]

TxInit == tx = TxIdle

\* ------------------------------------------------------------ actions ----
\* enqueue(task) followed by the synchronous part of _processNext(), up to
\* `await item.task()`.  startPc is where the started task stands when its
\* synchronous prefix has run.
QEnqueue(id, startPc) ==
    LET ev == {queue[i] : i \in EvictedPos(queue)}
        q2 == AfterPush(queue, id)
        go == CanProcess(processing, q2)
        item == q2[TakePos(q2)]
    IN  /\ stats' = [stats EXCEPT
                       !.totalDropped = IF QueueFull(queue) THEN @ + 1 ELSE @,
                       !.totalQueued = @ + 1]
        /\ promise' = [i \in TaskIds |->
                         IF i \in ev THEN "rej_dropped"
                         ELSE IF i = id THEN "pending"
                         ELSE promise[i]]
        /\ queue' = IF go THEN Without(q2, {TakePos(q2)}) ELSE q2
        /\ processing' = IF go THEN processing \cup {item} ELSE processing
        /\ startLog' = IF go THEN Append(startLog, item) ELSE startLog
        /\ taskPc' = IF go THEN [taskPc EXCEPT ![item] = startPc]
                     ELSE taskPc

\* The continuation of `await item.task()` in _processNext(): the try (ok) or
\* the catch branch, then the finally block with its call of _processNext().
QSettle(id, ok, startPc) ==
    LET p1 == AfterDelete(processing, id)
        go == CanProcess(p1, queue)
        item == queue[TakePos(queue)]
    IN  /\ id \in processing
        /\ stats' = [stats EXCEPT
                       !.totalProcessed = IF ok THEN @ + 1 ELSE @,
                       !.totalErrors = IF ok THEN @ ELSE @ + 1]
        /\ promise' = [promise EXCEPT
                         ![id] = IF ok THEN "resolved" ELSE "rej_error"]
        /\ queue' = IF go THEN Without(queue, {TakePos(queue)}) ELSE queue
        /\ processing' = IF go THEN p1 \cup {item} ELSE p1
        /\ startLog' = IF go THEN Append(startLog, item) ELSE startLog
        /\ taskPc' = IF go
                     THEN [taskPc EXCEPT ![id] = "done", ![item] = startPc]
                     ELSE [taskPc EXCEPT ![id] = "done"]

\* An opaque task is simply running once it has been invoked.
OpaqueStart == "running"

Enqueue ==
    /\ NextId <= MaxTasks
    /\ QEnqueue(NextId, OpaqueStart)
    /\ UNCHANGED <<maxConcurrent, maxQueueSize, waiter>>
    /\ UNCHANGED <<pvars, svars>>

\* The task's promise fulfils and `await item.task()` resumes in the try block.
TaskReturn(id) ==
    /\ taskPc[id] = "running"
    /\ QSettle(id, TRUE, OpaqueStart)
    /\ UNCHANGED <<maxConcurrent, maxQueueSize, waiter>>
    /\ UNCHANGED <<pvars, svars>>

\* The task's promise rejects and `await item.task()` resumes in the catch block.
TaskThrow(id) ==
    /\ taskPc[id] = "running"
    /\ QSettle(id, FALSE, OpaqueStart)
    /\ UNCHANGED <<maxConcurrent, maxQueueSize, waiter>>
    /\ UNCHANGED <<pvars, svars>>

\* clear(): reject every queued item, empty the queue.
Clear ==
    /\ queue # <<>>
    /\ promise' = [i \in TaskIds |->
                     IF i \in SeqSet(queue) THEN "rej_cleared" ELSE promise[i]]
    /\ queue' = <<>>
    /\ UNCHANGED <<maxConcurrent, maxQueueSize, processing, stats, taskPc,
                   startLog, waiter>>
    /\ UNCHANGED <<pvars, svars>>

\* waitForCompletion() is called: the first evaluation of the loop condition.
WaitCall ==
    /\ waiter.pc = "idle"
    /\ waiter' = [pc |-> IF MustWait(queue, processing)
                         THEN "sleeping" ELSE "resolved",
                  slept |-> FALSE]
    /\ UNCHANGED <<maxConcurrent, maxQueueSize, queue, processing, stats,
                   promise, taskPc, startLog>>
    /\ UNCHANGED <<pvars, svars>>

\* The 100 ms timer fires and the loop condition is evaluated again.
WaitPoll ==
    /\ waiter.pc = "sleeping"
    /\ waiter' = [pc |-> IF MustWait(queue, processing)
                         THEN "sleeping" ELSE "resolved",
                  slept |-> TRUE]
    /\ UNCHANGED <<maxConcurrent, maxQueueSize, queue, processing, stats,
                   promise, taskPc, startLog>>
    /\ UNCHANGED <<pvars, svars>>

Init == QueueInit /\ PipelineInit /\ BatcherInit /\ VadInit /\ TxInit

Next ==
    \/ Enqueue
    \/ \E id \in TaskIds : TaskReturn(id)
    \/ \E id \in TaskIds : TaskThrow(id)
    \/ Clear
    \/ WaitCall
    \/ WaitPoll

Spec == Init /\ [][Next]_vars

\* The queue with its scheduling made explicit.  A started task terminates
\* (the condition under which progress is claimed), and the 100 ms timer of
\* waitForCompletion fires when it is armed.  Nothing is required of the
\* callers: enqueue, clear and waitForCompletion are called or not.  The
\* start of the next item needs no condition of its own, _processNext runs
\* inside enqueue and inside the continuation of the task that ended.
TaskEnds(id) == TaskReturn(id) \/ TaskThrow(id)

Fairness ==
    /\ \A id \in TaskIds : WF_vars(TaskEnds(id))
    /\ WF_vars(WaitPoll)

\* Progress is explored on the queue of MaxConc slots and one place, where
\* tasks run side by side, wait, and are evicted.
InitLive == Init /\ maxConcurrent = MaxConc /\ maxQueueSize = 1

SpecLive == InitLive /\ [][Next]_vars /\ Fairness

(***************************************************************************)
(* Part 2: the per-segment pipeline and the recording session.             *)
(*   AudioProcessor    src/src/websocket/handlers/AudioProcessor.js 11-305 *)
(*   RecordingHandler  src/src/websocket/handlers/RecordingHandler.js      *)
(*                     203-396                                             *)
(*   EventHandlers     src/src/websocket/handlers/EventHandlers.js         *)
(* The tasks of the queue are the closures processAudioChunk() enqueues;   *)
(* a task's position is the await it is suspended at, or the return        *)
(* statement it left through.  Whether the batcher flushes on a fragment   *)
(* is left open here (both answers are explored).  One handleStopRecording *)
(* call is followed at a time.                                             *)
(***************************************************************************)
\* Number of audio segments the capture service delivers, and the largest
\* maxQueueSize of the configurations the pipeline is explored with.
MaxChunks == 2
MaxPipeQ == 1

\* The return statements of _processChunkInternal (lines 78, 97, 111 without
\* a result, 111 with a result while stopping, 123, and 123 after the catch
\* of _generateSuggestionsIfReady has run).
ReturnPcs == {"ret_stopping", "ret_novoice", "ret_notext", "ret_stopped",
              "ret_ok", "ret_caught"}

\* RecordingHandler._handleAudioChunk: `!isProcessing || isStopping` skips.
HandleChunkAccepts == isProcessing /\ ~isStopping

\* AudioProcessor.processAudioChunk: `if (this.state.isStopping) return`.
ProcessChunkAccepts == ~isStopping

\* _processChunkInternal, line 105: `|| this.state.isStopping` after the
\* transcription call has returned.
NoStopCheck == FALSE
StopCheckAfterTranscription == isStopping

\* handleStopRecording, line 296: the queue exists (SocketHandler creates the
\* AudioProcessor, and with it the queue, in its constructor).
QueueUnavailable == FALSE
QueueAvailable == TRUE

\* The synchronous prefix of a task, run inside _processNext by item.task():
\* the stop check (76-79), then up to the await of the VAD call (85) or, with
\* VAD disabled, of the transcription call (104, 189).
StartPc ==
    IF isStopping THEN "ret_stopping"
    ELSE IF vadEnabled THEN "vad" ELSE "transcribe"

\* _performTranscription emits 'processing' before it awaits the backend.
StartEvents(pc) == IF pc = "transcribe" THEN <<"processing">> ELSE <<>>

\* The events of every chunk after a queue operation: ev is the value before
\* the queue acted; the item the queue started emits what its prefix emits.
WithStarted(ev) ==
    [i \in TaskIds |->
        IF i \in processing' \ processing
        THEN ev[i] \o StartEvents(StartPc) ELSE ev[i]]

\* The capture service delivers a segment: the callback of
\* handleStartRecording, _handleAudioChunk, processAudioChunk, enqueue and
\* the synchronous part of _processNext.  The catch of processAudioChunk
\* runs for the chunk that enqueue evicted and emits an error event.
ChunkArrivesUpTo(n) ==
    /\ capture
    /\ NextId <= n
    /\ HandleChunkAccepts
    /\ ProcessChunkAccepts
    /\ QEnqueue(NextId, StartPc)
    /\ events' = WithStarted(
          [i \in TaskIds |->
              IF i = NextId THEN <<"audio-chunk">>
              ELSE IF promise'[i] = "rej_dropped" /\ promise[i] # "rej_dropped"
                   THEN Append(events[i], "error")
                   ELSE events[i]])
    /\ UNCHANGED <<maxConcurrent, maxQueueSize, waiter, isProcessing,
                   isStopping, vadEnabled, capture, meeting, history, stopPc,
                   admittedAtStop, cleanup, deleted, noVoice>>
    /\ UNCHANGED svars

\* _processChunkInternal, line 93: a chunk without voice is deleted when
\* deleteAfterTranscription is on.
DeletesSilentChunk == cleanup.deleteAfterTranscription

\* _processChunkInternal, lines 107-108, and transcribeAudio, line 144 (after
\* the backend has answered with text): the chunk is deleted when
\* deleteAfterTranscription is on and keepForPlayback is off.
DeletesTranscribed ==
    cleanup.deleteAfterTranscription /\ ~cleanup.keepForPlayback

ChunkArrives == ChunkArrivesUpTo(MaxChunks)

\* _processChunkInternal, line 86: `if (!vadResult.hasVoice)` leaves through
\* the return of line 97.
NeverSkips(hasVoice) == FALSE
SkipsTranscription(hasVoice) == ~hasVoice

\* vad.analyzeAudio() has answered (it never throws: VADService.analyzeAudio
\* catches and answers hasVoice true).  Lines 85-104.
VadDone(id, hasVoice) ==
    /\ taskPc[id] = "vad"
    /\ noVoice' = IF hasVoice THEN noVoice ELSE noVoice \cup {id}
    /\ taskPc' = [taskPc EXCEPT
                    ![id] = IF SkipsTranscription(hasVoice)
                            THEN "ret_novoice" ELSE "transcribe"]
    /\ events' = [events EXCEPT
                    ![id] = IF SkipsTranscription(hasVoice)
                            THEN @ ELSE Append(@, "processing")]
    /\ deleted' = IF SkipsTranscription(hasVoice) /\ DeletesSilentChunk
                  THEN deleted \cup {id} ELSE deleted
    /\ UNCHANGED <<maxConcurrent, maxQueueSize, queue, processing, stats,
                   promise, startLog, waiter, isProcessing, isStopping,
                   vadEnabled, capture, meeting, history, stopPc,
                   admittedAtStop, cleanup>>
    /\ UNCHANGED svars

\* What is emitted for a segment when its transcription call has settled:
\* the error event of the catch (line 131), nothing for a silent or empty
\* answer and while stopping (line 111), else the transcript event (line
\* 217) followed by 'processing' (line 239) or, with no batch, by the stats
\* event (line 121).
TranscriptionEventsAlways(r, emit, batched) ==
    IF r = "throw" THEN <<"error">>
    ELSE IF ~emit /\ r # "silence" THEN <<>>
    ELSE IF batched THEN <<"transcription", "processing">>
    ELSE <<"transcription", "stats">>
TranscriptionEvents(r, emit, batched) ==
    IF r = "throw" THEN <<"error">>
    ELSE IF ~emit THEN <<>>
    ELSE IF batched THEN <<"transcription", "processing">>
    ELSE <<"transcription", "stats">>

\* transcription.transcribeAudio() has answered with text, with silence or
\* empty text, or has thrown.  Lines 104-121 and 209-243; on "throw" the catch
\* of lines 124-137.  batched: SuggestionService.addTranscription returned a
\* batch.  The transcription backend is the configured one (an API key is
\* present): transcribeAudio deletes the file before it returns text, a
\* silent or empty answer is deleted at line 109, and nothing is deleted when
\* the call throws.
TranscribeStep(id, r, batched) ==
    /\ taskPc[id] = "transcribe"
    /\ LET emit == r = "text" /\ ~StopCheckAfterTranscription
       IN  /\ taskPc' = [taskPc EXCEPT ![id] =
                 IF r = "throw" THEN "threw"
                 ELSE IF r = "silence" THEN "ret_notext"
                 ELSE IF ~emit THEN "ret_stopped"
                 ELSE IF batched THEN "suggest" ELSE "ret_ok"]
           /\ events' = [events EXCEPT
                           ![id] = @ \o TranscriptionEvents(r, emit, batched)]
           /\ history' = IF emit /\ meeting THEN history \cup {id} ELSE history
           /\ deleted' = IF r # "throw" /\ DeletesTranscribed
                         THEN deleted \cup {id} ELSE deleted
    /\ UNCHANGED <<maxConcurrent, maxQueueSize, queue, processing, stats,
                   promise, startLog, waiter, isProcessing, isStopping,
                   vadEnabled, capture, meeting, stopPc,
                   admittedAtStop, cleanup, noVoice>>

\* The same step with the batcher's answer left open and its state left out.
TranscribeDone(id, r, batched) ==
    /\ TranscribeStep(id, r, batched)
    /\ UNCHANGED svars

\* What _generateSuggestionsIfReady and _processChunkInternal emit once the
\* suggestion call has settled (lines 247-260 and 121): the catch only logs.
SuggestEventsWithError(r) ==
    IF r = "some" THEN <<"suggestion", "stats">>
    ELSE IF r = "throw" THEN <<"error", "stats">>
    ELSE <<"stats">>
SuggestEvents(r) ==
    IF r = "some" THEN <<"suggestion", "stats">> ELSE <<"stats">>

\* suggestion.generateSuggestions() has answered with suggestions, with
\* nothing, or has thrown (caught at 256-260).  Lines 245-262, 121-123.
SuggestDone(id, r) ==
    /\ taskPc[id] = "suggest"
    /\ taskPc' = [taskPc EXCEPT
                    ![id] = IF r = "throw" THEN "ret_caught" ELSE "ret_ok"]
    /\ events' = [events EXCEPT ![id] = @ \o SuggestEvents(r)]
    /\ UNCHANGED <<maxConcurrent, maxQueueSize, queue, processing, stats,
                   promise, startLog, waiter, isProcessing, isStopping,
                   vadEnabled, capture, meeting, history, stopPc,
                   admittedAtStop, cleanup, deleted, noVoice>>
    /\ UNCHANGED svars

\* `await item.task()` resumes in _processNext: the task returned or threw.
\* After a throw the rejection reaches the catch of processAudioChunk, which
\* emits an error event.
QueueSettle(id) ==
    /\ taskPc[id] \in ReturnPcs \cup {"threw"}
    /\ QSettle(id, taskPc[id] # "threw", StartPc)
    /\ events' = WithStarted(
          [events EXCEPT
              ![id] = IF taskPc[id] = "threw" THEN Append(@, "error") ELSE @])
    /\ UNCHANGED <<maxConcurrent, maxQueueSize, waiter, isProcessing,
                   isStopping, vadEnabled, capture, meeting, history, stopPc,
                   admittedAtStop, cleanup, deleted, noVoice>>
    /\ UNCHANGED svars

\* handleStartRecording, when no session is in progress.  captureOk: the
\* capture service could start; it answers false when it is still recording.
\* suggestion.clearContext() empties the batcher.
StartRecording(captureOk) ==
    /\ ~isProcessing
    /\ LET started == captureOk /\ ~capture
       IN  /\ isProcessing' = started
           /\ capture' = (capture \/ started)
    /\ isStopping' = FALSE
    /\ meeting' = TRUE
    /\ BatcherCleared
    /\ UNCHANGED <<qvars, vadEnabled, history, events, stopPc,
                   admittedAtStop, cleanup, deleted, noVoice, dvars, tvars>>

\* handleStopRecording up to its first suspension: the flags, the call of
\* suggestion.clearBuffer(), the first test of waitForCompletion's loop and,
\* when the queue is idle, the reading of the statistics and the call of
\* endMeeting().
StopFinalize == IF meeting THEN "ending" ELSE "ending_null"

\* handleStopRecording, line 290: `this.state.isProcessing = false`, written
\* together with isStopping = true.
ProcessingKept == isProcessing
ProcessingAfterStop == FALSE

StopRecording ==
    /\ stopPc = "idle"
    /\ capture' = FALSE
    /\ isStopping' = TRUE
    /\ isProcessing' = ProcessingAfterStop
    /\ admittedAtStop' = Enqueued
    /\ stopPc' = IF QueueAvailable /\ MustWait(queue, processing)
                 THEN "waiting" ELSE StopFinalize
    /\ BatcherCleared
    /\ UNCHANGED <<qvars, vadEnabled, meeting, history, events, cleanup,
                   deleted, noVoice, dvars, tvars>>

\* The 100 ms timer of waitForCompletion fires in handleStopRecording; when
\* the loop ends the handler reads the statistics and calls endMeeting().
StopPoll ==
    /\ stopPc = "waiting"
    /\ ~MustWait(queue, processing)
    /\ stopPc' = StopFinalize
    /\ UNCHANGED <<qvars, isProcessing, isStopping, vadEnabled, capture,
                   meeting, history, events, admittedAtStop, cleanup,
                   deleted, noVoice>>
    /\ UNCHANGED svars

\* endMeeting() settles: recording-stopped is emitted, or the error event of
\* the catch when the PDF could not be written.
StopEnd(ok) ==
    /\ stopPc \in {"ending", "ending_null"}
    /\ ok \/ stopPc = "ending"
    /\ stopPc' = "idle"
    /\ meeting' = IF ok /\ stopPc = "ending" THEN FALSE ELSE meeting
    /\ admittedAtStop' = {}
    /\ UNCHANGED <<qvars, isProcessing, isStopping, vadEnabled, capture,
                   history, events, cleanup, deleted, noVoice>>
    /\ UNCHANGED svars

\* handleDisconnect while a session is in progress.
Disconnect ==
    /\ isProcessing
    /\ isStopping' = TRUE
    /\ isProcessing' = FALSE
    /\ UNCHANGED <<qvars, vadEnabled, capture, meeting, history, events,
                   stopPc, admittedAtStop, cleanup, deleted, noVoice>>
    /\ UNCHANGED svars

\* The capture callback is called with an error (handleStartRecording,
\* lines 243-251).
CaptureError ==
    /\ capture
    /\ isProcessing
    /\ isProcessing' = FALSE
    /\ UNCHANGED <<qvars, isStopping, vadEnabled, capture, meeting, history,
                   events, stopPc, admittedAtStop, cleanup, deleted, noVoice>>
    /\ UNCHANGED svars

\* handleUpdateSettings with audio.vad.enabled = v.
UpdateSettings(v) ==
    /\ vadEnabled # v
    /\ vadEnabled' = v
    /\ UNCHANGED <<qvars, isProcessing, isStopping, capture, meeting, history,
                   events, stopPc, admittedAtStop, cleanup, deleted, noVoice>>
    /\ UNCHANGED svars

NextPipeline ==
    \/ ChunkArrives
    \/ \E id \in TaskIds, v \in BOOLEAN : VadDone(id, v)
    \/ \E id \in TaskIds, r \in {"text", "silence", "throw"}, b \in BOOLEAN :
          TranscribeDone(id, r, b)
    \/ \E id \in TaskIds, r \in {"some", "null", "throw"} : SuggestDone(id, r)
    \/ \E id \in TaskIds : QueueSettle(id)
    \/ \E ok \in BOOLEAN : StartRecording(ok)
    \/ StopRecording
    \/ StopPoll
    \/ \E ok \in BOOLEAN : StopEnd(ok)
    \/ Disconnect
    \/ CaptureError
    \/ \E v \in BOOLEAN : UpdateSettings(v)

InitPipeline == Init /\ maxQueueSize <= MaxPipeQ

SpecPipeline == InitPipeline /\ [][NextPipeline]_vars

\* A burst of segments on the smallest queue (one slot, one queue place),
\* under every cleanup policy: the third segment of a burst overflows the
\* queue.  MaxBurst is the number of segments the capture service delivers.
MaxBurst == 3

ChunkArrivesBurst == ChunkArrivesUpTo(MaxBurst)

NextBurst ==
    \/ ChunkArrivesBurst
    \/ \E id \in TaskIds, v \in BOOLEAN : VadDone(id, v)
    \/ \E id \in TaskIds, r \in {"text", "silence", "throw"}, b \in BOOLEAN :
          TranscribeDone(id, r, b)
    \/ \E id \in TaskIds, r \in {"some", "null", "throw"} : SuggestDone(id, r)
    \/ \E id \in TaskIds : QueueSettle(id)
    \/ \E ok \in BOOLEAN : StartRecording(ok)
    \/ StopRecording
    \/ StopPoll
    \/ \E ok \in BOOLEAN : StopEnd(ok)
    \/ Disconnect
    \/ CaptureError
    \/ \E v \in BOOLEAN : UpdateSettings(v)

InitBurst ==
    /\ QueueInit
    /\ SessionInit
    /\ maxConcurrent = 1
    /\ maxQueueSize = 1
    /\ cleanup \in CleanupPolicies
    /\ BatcherInit
    /\ VadInit
    /\ TxInit

SpecBurst == InitBurst /\ [][NextBurst]_vars

(***************************************************************************)
(* Part 3: the batcher of SuggestionService, called in any order by the    *)
(* segment tasks (addTranscription), a pause timer (checkPauseTimeout) and *)
(* the session handlers (clearBuffer, clearContext), while time passes.    *)
(* Both methods are synchronous: a call is one step.                       *)
(***************************************************************************)
\* Number of addTranscription and checkPauseTimeout calls explored, and the
\* latest clock value in seconds.
MaxCalls == 3
MaxClock == 8

\* The lengths the trimmed texts are drawn from: below and at the 5 character
\* limit, and lengths that join to 29, 30, 99 and 100 characters.
FragLens == {0, 4, 5, 23, 24, 30, 69}

\* White-space characters around a text: none, or one.
Pads == {0, 1}

\* The arguments of the call numbered id.
RawTexts(id) ==
    {[words |-> <<id>>, len |-> l, end |-> e, pad |-> p] :
        l \in FragLens, e \in {"punct", "other", "none"}, p \in Pads}

\* White space is put around the texts at the 5 character limit only.
Texts(id) ==
    {t \in RawTexts(id) :
        /\ (t.end = "none") <=> (t.len = 0)
        /\ t.pad > 0 => t.len <= MinFragmentLength}

\* addTranscription(t): what it does to the batcher.
AddCore(t) ==
    LET buf == Pushed(transcriptionBuffer, Trim(t))
        text == Join(buf)
        send == ShouldSendBatch(text)
    IN  /\ IF Ignored(t)
           THEN /\ call' = [n |-> call.n + 1, op |-> "add", arg |-> t,
                            held |-> Len(transcriptionBuffer),
                            result |-> Null]
                /\ UNCHANGED <<transcriptionBuffer, lastTranscriptionTime,
                               batches, accepted>>
           ELSE /\ transcriptionBuffer' =
                      IF send THEN BufferAfterFlush(buf) ELSE buf
                /\ lastTranscriptionTime' = Ms(now)
                /\ call' = [n |-> call.n + 1, op |-> "add", arg |-> t,
                            held |-> Len(transcriptionBuffer),
                            result |-> IF send THEN text ELSE Null]
                /\ batches' = IF send THEN Append(batches, text.words)
                              ELSE batches
                /\ accepted' = IF send THEN <<>>
                               ELSE Append(accepted, Trim(t))
        /\ UNCHANGED now

\* addTranscription(t), called on its own.
AddTranscription(t) ==
    /\ call.n < MaxCalls
    /\ AddCore(t)
    /\ UNCHANGED <<qvars, pvars, dvars, tvars>>

\* checkPauseTimeout().
CheckPauseTimeout ==
    LET text == Join(transcriptionBuffer)
        over == ~NothingBuffered /\ PauseReached
        send == over /\ Meaningful(text)
    IN  /\ call.n < MaxCalls
        /\ transcriptionBuffer' =
              IF send THEN BufferAfterFlush(transcriptionBuffer)
              ELSE IF over THEN <<>> ELSE transcriptionBuffer
        /\ lastTranscriptionTime' =
              IF over THEN NoTime ELSE lastTranscriptionTime
        /\ call' = [n |-> call.n + 1, op |-> "check", arg |-> EmptyText,
                    held |-> Len(transcriptionBuffer),
                    result |-> IF send THEN text ELSE Null]
        /\ batches' = IF send THEN Append(batches, text.words) ELSE batches
        /\ accepted' = IF over THEN <<>> ELSE accepted
        /\ UNCHANGED <<now, qvars, pvars, dvars, tvars>>

\* clearBuffer().
ClearBuffer ==
    /\ transcriptionBuffer # <<>>
    /\ BatcherCleared
    /\ UNCHANGED <<qvars, pvars, dvars, tvars>>

\* clearContext(), as called by handleClearContext.
ClearContext ==
    /\ lastTranscriptionTime # NoTime
    /\ BatcherCleared
    /\ UNCHANGED <<qvars, pvars, dvars, tvars>>

\* A second passes.
Tick ==
    /\ now < MaxClock
    /\ now' = now + 1
    /\ UNCHANGED <<transcriptionBuffer, lastTranscriptionTime, call, batches,
                   accepted, qvars, pvars, dvars, tvars>>

NextBatcher ==
    \/ \E t \in Texts(call.n + 1) : AddTranscription(t)
    \/ CheckPauseTimeout
    \/ ClearBuffer
    \/ ClearContext
    \/ Tick

\* The queue is not used here; its configuration is the smallest one.
InitBatcher == Init /\ maxConcurrent = 1 /\ maxQueueSize = 1

SpecBatcher == InitBatcher /\ [][NextBatcher]_vars

(***************************************************************************)
(* The batcher inside a recording session: the session handlers of Part 2, *)
(* the fragments the segment tasks of the session in progress hand to the  *)
(* batcher, and time.  EventHandlers.startPauseDetection, the only caller  *)
(* of checkPauseTimeout, is called by none of the handlers SocketHandler   *)
(* wires (handleStartRecording does not call it), so no step of a session  *)
(* is a tick of the pause timer.                                           *)
(***************************************************************************)
\* The period of the pause timer, in ms.
PauseCheckPeriod == 2000

\* _generateSuggestionsIfReady, lines 229-235, in a task of the session in
\* progress: the stop test, then addTranscription(text).
SegmentFragment(t) ==
    /\ isProcessing
    /\ ~isStopping
    /\ AddTranscription(t)

\* handleClearContext.
HandleClearContext == ClearContext

NextPause ==
    \/ \E ok \in BOOLEAN : StartRecording(ok)
    \/ \E t \in Texts(call.n + 1) : SegmentFragment(t)
    \/ Tick
    \/ HandleClearContext
    \/ StopRecording
    \/ \E ok \in BOOLEAN : StopEnd(ok)
    \/ Disconnect
    \/ CaptureError

SpecPause == InitBatcher /\ [][NextPause]_vars

(***************************************************************************)
(* The segment tasks with the batcher they feed: the pipeline of Part 2    *)
(* on a queue of one slot and one place, where the step that ends the      *)
(* transcription call hands the text to addTranscription and the batcher's *)
(* answer decides whether the suggestion call is made.                     *)
(***************************************************************************)
\* The trimmed lengths of the texts the backend returns: ignored by the
\* batcher, buffered, and flushed at once.
SegmentLens == {4, 24, 30}

SegmentTexts(id) ==
    {t \in Texts(id) : t.len \in SegmentLens /\ t.pad = 0}

\* _generateSuggestionsIfReady, line 235: addTranscription(text) returned a
\* batch.
ReturnsBatch(t) ==
    /\ ~Ignored(t)
    /\ ShouldSendBatch(Join(Pushed(transcriptionBuffer, Trim(t))))

\* transcribeAudio() has answered for segment id, with text t when r is
\* "text": lines 104-118 and 229-243 up to the await of the suggestion call.
TranscribeFeeds(id, r, t) ==
    /\ TranscribeStep(id, r, ReturnsBatch(t))
    /\ IF r = "text" /\ ~StopCheckAfterTranscription
       THEN AddCore(t)
       ELSE UNCHANGED bvars
    /\ UNCHANGED <<dvars, tvars>>

NextSegment ==
    \/ ChunkArrives
    \/ \E id \in TaskIds, v \in BOOLEAN : VadDone(id, v)
    \/ \E id \in TaskIds, r \in {"text", "silence", "throw"} :
          \E t \in SegmentTexts(id) : TranscribeFeeds(id, r, t)
    \/ \E id \in TaskIds, r \in {"some", "null", "throw"} : SuggestDone(id, r)
    \/ \E id \in TaskIds : QueueSettle(id)
    \/ \E ok \in BOOLEAN : StartRecording(ok)
    \/ StopRecording
    \/ StopPoll
    \/ \E ok \in BOOLEAN : StopEnd(ok)
    \/ Disconnect
    \/ CaptureError
    \/ \E v \in BOOLEAN : UpdateSettings(v)

SpecSegment == InitBatcher /\ [][NextSegment]_vars

(***************************************************************************)
(* Part 4: VADService.analyzeAudio as a function of the file, the option   *)
(* and the thresholds.  A call has no effect on the service, so calls of   *)
(* concurrent tasks do not influence each other: one call is one step,     *)
(* followed by the step that hands its answer to the caller.               *)
(***************************************************************************)
\* Largest energy, in thousandths, the files are drawn from.
MaxEnergy == 7

\* Durations of the decoded audio, in ms.
Durations == {50, 200, 1000, 2000}

\* A file without samples.
NoAudio == [empty |-> TRUE, energy |-> 0, duration |-> 0, zcr |-> FALSE]

\* What a parsed file holds.
Audios ==
    {NoAudio}
    \cup [empty : {FALSE}, energy : 0..MaxEnergy, duration : Durations,
          zcr : BOOLEAN]

\* What the scan of the first bytes meets.
Prefixes ==
    {[prefix |-> "throws", quickEnergy |-> 0],
     [prefix |-> "nodata", quickEnergy |-> 0]}
    \cup [prefix : {"data"}, quickEnergy : (0..MaxEnergy) \cup {NaN}]

\* What the full read meets.
Bodies ==
    {[body |-> "throws", audio |-> NoAudio],
     [body |-> "unparsable", audio |-> NoAudio]}
    \cup [body : {"parsed"}, audio : Audios]

MissingFile ==
    [exists |-> FALSE, wav |-> TRUE, prefix |-> "throws", quickEnergy |-> 0,
     body |-> "throws", audio |-> NoAudio]

\* The files: the fields the code does not get to see keep one value.
Files ==
    {MissingFile}
    \cup {[exists |-> TRUE, wav |-> w, prefix |-> p.prefix,
           quickEnergy |-> p.quickEnergy, body |-> b.body,
           audio |-> b.audio] :
             w \in BOOLEAN, p \in Prefixes, b \in Bodies}

\* The thresholds updateConfig is called with.
VadConfigs ==
    {VadDefaults,
     [energyThreshold |-> 2, minSpeechDuration |-> 200,
      silenceThreshold |-> 3],
     [energyThreshold |-> 2, minSpeechDuration |-> 50,
      silenceThreshold |-> 7]}

\* _performVAD: analyzeAudio(audioFilePath, useQuickCheck).
AnalyzeAudio(f, useQuickCheck) ==
    /\ vadOut.pc = "idle"
    /\ vadIn' = [file |-> f, useQuickCheck |-> useQuickCheck,
                 config |-> vadConfig]
    /\ vadOut' = AnalyzeAudioResult(f, useQuickCheck, vadConfig)
    /\ UNCHANGED <<vadConfig, qvars, pvars, bvars, tvars>>

\* _performVAD returns the answer to _processChunkInternal.
VadReturns ==
    /\ vadOut.pc = "done"
    /\ vadIn' = NoCall
    /\ vadOut' = [pc |-> "idle"]
    /\ UNCHANGED <<vadConfig, qvars, pvars, bvars, tvars>>

\* updateConfig(options) with the three thresholds given.
VadUpdateConfig(c) ==
    /\ vadConfig # c
    /\ vadConfig' = c
    /\ UNCHANGED <<vadIn, vadOut, qvars, pvars, bvars, tvars>>

NextVad ==
    \/ \E f \in Files, u \in BOOLEAN : AnalyzeAudio(f, u)
    \/ VadReturns
    \/ \E c \in VadConfigs : VadUpdateConfig(c)

\* The queue is not used here; its configuration is the smallest one.
InitVad == Init /\ maxConcurrent = 1 /\ maxQueueSize = 1

SpecVad == InitVad /\ [][NextVad]_vars

(***************************************************************************)
(* Part 5: TranscriptionService._transcribeWithRetry inside a segment task *)
(* of the queue.  The queue has one slot, so one transcription call is in  *)
(* progress at a time.  An error thrown by _transcribeWithRetry is         *)
(* rethrown by the catch blocks of transcribeAudio (lines 170-176) and of  *)
(* _processChunkInternal and rejects the task's promise.                   *)
(***************************************************************************)
\* The errors client.audio.transcriptions.create() rejects with.
BackendErrors ==
    [status : {NoStatus, 400, 429, 500, 503},
     code : {"undefined", "ECONNRESET", "ETIMEDOUT", "ENOTFOUND", "EPIPE"}]

\* transcribeAudio calls _transcribeWithRetry(audioFilePath) for the segment
\* whose task is running: attempt 1, the first backend call.
GatewayCall(id) ==
    /\ taskPc[id] = "running"
    /\ tx.pc = "idle"
    /\ tx' = [pc |-> "calling", id |-> id, attempt |-> 1, calls |-> 1,
              last |-> NoError, thrown |-> NoError]
    /\ UNCHANGED <<qvars, pvars, bvars, dvars>>

\* The backend call resolves: the transcription is returned.
BackendReturns ==
    /\ tx.pc = "calling"
    /\ tx' = [tx EXCEPT !.pc = "returned"]
    /\ UNCHANGED <<qvars, pvars, bvars, dvars>>

\* The backend call rejects with error e: the catch of lines 202-225 starts
\* the backoff timer or rethrows.
BackendThrows(e) ==
    /\ tx.pc = "calling"
    /\ tx' = IF tx.attempt < maxRetries /\ ShouldRetry(e)
             THEN [tx EXCEPT !.pc = "sleeping", !.last = e]
             ELSE [tx EXCEPT !.pc = "threw", !.last = e, !.thrown = e]
    /\ UNCHANGED <<qvars, pvars, bvars, dvars>>

\* The backoff timer fires: _transcribeWithRetry(audioFilePath, attempt + 1)
\* makes the next backend call.
RetryTimer ==
    /\ tx.pc = "sleeping"
    /\ tx' = [tx EXCEPT !.pc = "calling", !.attempt = @ + 1, !.calls = @ + 1]
    /\ UNCHANGED <<qvars, pvars, bvars, dvars>>

\* The segment task settles with what _transcribeWithRetry returned or threw
\* and `await item.task()` resumes in _processNext.
GatewaySettles ==
    /\ tx.pc \in {"returned", "threw"}
    /\ QSettle(tx.id, tx.pc = "returned", OpaqueStart)
    /\ tx' = TxIdle
    /\ UNCHANGED <<maxConcurrent, maxQueueSize, waiter, pvars, bvars, dvars>>

NextRetry ==
    \/ Enqueue
    \/ \E id \in TaskIds : GatewayCall(id)
    \/ BackendReturns
    \/ \E e \in BackendErrors : BackendThrows(e)
    \/ RetryTimer
    \/ GatewaySettles

InitRetry == Init /\ maxConcurrent = 1 /\ maxQueueSize = 1

SpecRetry == InitRetry /\ [][NextRetry]_vars

\* ================================================= ProcessingQueue claims ==
\* An enqueue step is a step in which a new id is handed out.
EnqueueStep == NextId' = NextId + 1

\* No task has completed (successfully or not) and clear() has not rejected
\* anything: the queue has only seen enqueue calls.
OnlyEnqueues ==
    /\ stats.totalProcessed + stats.totalErrors = 0
    /\ \A i \in TaskIds : promise[i] # "rej_cleared"

Dropped == {i \in TaskIds : promise[i] = "rej_dropped"}

\* C1: the number of tasks in flight (members of the processing set) never
\* exceeds maxConcurrent, in every configuration and every interleaving of
\* enqueue calls and task completions.
C1_InFlightBounded == Cardinality(processing) <= maxConcurrent

\* All slots are taken while more work is waiting and some task has already
\* completed: the bound is under pressure.
C1_Witness ==
    /\ Cardinality(processing) = maxConcurrent
    /\ maxConcurrent = MaxConc
    /\ Len(queue) > 0
    /\ stats.totalProcessed > 0
    /\ stats.totalErrors > 0

\* C2: the number of queued (not yet started) items never exceeds
\* maxQueueSize.
C2_QueueBounded == Len(queue) <= maxQueueSize

\* The queue is at capacity after more than one eviction.
C2_Witness ==
    /\ Len(queue) = maxQueueSize
    /\ stats.totalDropped >= 2

\* C3 as stated: N enqueues on a fresh queue with N > maxQueueSize and no
\* completion in between drop exactly N - maxQueueSize tasks.
C3_Original ==
    (OnlyEnqueues /\ stats.totalQueued > maxQueueSize)
        => stats.totalDropped = stats.totalQueued - maxQueueSize

\* C3 amended: N enqueues on a fresh queue with no completion in between drop
\* exactly N - maxConcurrent - maxQueueSize tasks when that number is
\* positive and none otherwise (the first maxConcurrent tasks are started at
\* once and take no queue slot); the dropped tasks are the oldest queued
\* ones and the promise of each is rejected as dropped.
C3_DropCount ==
    OnlyEnqueues =>
        LET n == stats.totalQueued
            d == n - maxConcurrent - maxQueueSize
        IN  /\ stats.totalDropped = IF d > 0 THEN d ELSE 0
            /\ Dropped = (maxConcurrent + 1)..(n - maxQueueSize)
            /\ Cardinality(Dropped) = stats.totalDropped

\* Only enqueues so far, more of them than maxQueueSize, and at least two
\* drops.
C3_Witness ==
    /\ OnlyEnqueues
    /\ stats.totalQueued > maxQueueSize
    /\ stats.totalDropped >= 2
    /\ Cardinality(Dropped) >= 2

\* C4: with maxConcurrent = 2 and maxQueueSize = 3, six enqueues with no
\* completion in between drop exactly one task; two tasks are in flight,
\* three are queued, and the dropped task is the third, the one that had
\* been queued longest.
C4_ScenarioC ==
    (OnlyEnqueues /\ maxConcurrent = 2 /\ maxQueueSize = 3
                  /\ stats.totalQueued = 6)
        => /\ stats.totalDropped = 1
           /\ processing = {1, 2}
           /\ queue = <<4, 5, 6>>
           /\ Dropped = {3}

\* The scenario's final state.
C4_Witness ==
    /\ OnlyEnqueues
    /\ maxConcurrent = 2
    /\ maxQueueSize = 3
    /\ stats.totalQueued = 6
    /\ promise[3] = "rej_dropped"

\* C5: an enqueue that finds the queue at maxQueueSize evicts exactly one
\* item, the head of the queue, rejects its promise as dropped, increments
\* totalDropped by exactly 1 and admits the new item at the tail; a task in
\* flight is never evicted, and totalDropped changes only in a step that
\* evicts an item.
C5_EvictOldest ==
    [][ /\ (EnqueueStep /\ Len(queue) >= maxQueueSize) =>
              /\ promise'[Head(queue)] = "rej_dropped"
              /\ Dropped' = Dropped \cup {Head(queue)}
              /\ Head(queue) \notin Dropped
              /\ stats'.totalDropped = stats.totalDropped + 1
              /\ LET q2 == Append(Tail(queue), NextId)
                 IN  \/ queue' = q2
                     \/ /\ queue' = Tail(q2)
                        /\ processing' = processing \cup {Head(q2)}
              /\ processing \subseteq processing'
        /\ \A i \in processing : promise'[i] # "rej_dropped"
        /\ (stats'.totalDropped # stats.totalDropped) =>
              /\ stats'.totalDropped = stats.totalDropped + 1
              /\ Cardinality(Dropped') = Cardinality(Dropped) + 1
        /\ (stats'.totalDropped = stats.totalDropped) => Dropped' = Dropped
      ]_vars

\* An eviction has happened while tasks were in flight, and the newest item
\* sits at the tail of a full queue.
C5_Witness ==
    /\ stats.totalDropped = 1
    /\ Len(queue) = maxQueueSize
    /\ queue[Len(queue)] = stats.totalQueued
    /\ Cardinality(processing) = maxConcurrent

\* C6: among the tasks actually started, the start order equals the enqueue
\* order (ids are handed out in enqueue order).
C6_StartFIFO ==
    \A i, j \in 1..Len(startLog) : i < j => startLog[i] < startLog[j]

\* Tasks were started after an eviction and after completions.
C6_Witness ==
    /\ Len(startLog) >= 4
    /\ stats.totalDropped > 0
    /\ stats.totalProcessed > 0
    /\ \E i \in 1..Len(startLog) : startLog[i] - 1 \in Dropped

\* A step in which a task's failure is handled by the queue.
FailureStep == stats'.totalErrors # stats.totalErrors

\* C7: when a task throws, its enqueue promise rejects with the task's error,
\* totalErrors increases by 1, the task leaves the in-flight set and the next
\* queued item, if any, is started; an enqueue made after a failure still
\* admits its task (queued or started).
C7_FailureIsolated ==
    [][ /\ FailureStep =>
              \E id \in processing :
                  /\ promise[id] = "pending"
                  /\ promise'[id] = "rej_error"
                  /\ id \notin processing'
                  /\ stats'.totalErrors = stats.totalErrors + 1
                  /\ stats'.totalProcessed = stats.totalProcessed
                  /\ IF queue # <<>>
                     THEN /\ Head(queue) \in processing'
                          /\ taskPc'[Head(queue)] # "idle"
                          /\ queue' = Tail(queue)
                          /\ Cardinality(processing') = Cardinality(processing)
                     ELSE /\ queue' = queue
                          /\ processing' = processing \ {id}
        /\ (EnqueueStep /\ stats.totalErrors > 0) =>
              /\ promise'[NextId] = "pending"
              /\ NextId \in SeqSet(queue') \cup processing'
      ]_vars

\* With one slot and one queue place, task 1 failed, nothing was dropped or
\* cleared, and task 3 ran to completion: task 3 was enqueued after the
\* failure of task 1 (before it, its enqueue would have evicted task 2), and
\* task 2, queued when task 1 failed, was started.
C7_Witness ==
    /\ maxConcurrent = 1
    /\ maxQueueSize = 1
    /\ promise[1] = "rej_error"
    /\ promise[2] \in {"resolved", "rej_error"}
    /\ promise[3] = "resolved"
    /\ stats.totalDropped = 0
    /\ \A i \in TaskIds : promise[i] # "rej_cleared"

\* C8: waitForCompletion() resolves only in a state where the queue is empty
\* and no task is in flight; every task enqueued so far, so every task that
\* was queued or in flight when it was called, has settled by then.
C8_WaitResolves ==
    [][ (waiter.pc # "resolved" /\ waiter'.pc = "resolved") =>
            /\ queue' = <<>>
            /\ processing' = {}
            /\ \A i \in Enqueued' : promise'[i] \in Settled
      ]_vars

\* waitForCompletion() has resolved after sleeping at least once, and tasks
\* have settled in each of the three ways.
C8_Witness ==
    /\ waiter.pc = "resolved"
    /\ waiter.slept
    /\ stats.totalProcessed > 0
    /\ stats.totalErrors > 0
    /\ stats.totalDropped > 0

\* C26: the queue is work-conserving: after every enqueue, completion or
\* clear, a non-empty queue means that exactly maxConcurrent tasks are in
\* flight, so no queued task waits while a slot is free; and each step starts
\* at most one task.
C26_WorkConserving ==
    [][ /\ Len(queue') > 0 => Cardinality(processing') = maxConcurrent
        /\ Len(startLog') <= Len(startLog) + 1 ]_vars

\* Two slots are taken and tasks are queued after a completion has started a
\* queued task.
C26_Witness ==
    /\ maxConcurrent = 2
    /\ Len(queue) > 0
    /\ Cardinality(processing) = 2
    /\ Len(startLog) > 2
    /\ stats.totalProcessed + stats.totalErrors > 0

\* ======================================================= pipeline claims ==
Ending == {"ending", "ending_null"}

\* C9: on session stop, the statistics are read and endMeeting() is called
\* (the step that enters Ending), and recording-stopped is emitted (the step
\* that leaves Ending), only when every segment admitted to the queue before
\* the stop request has completed or been rejected.
C9_StopAfterDrain ==
    [][ /\ (stopPc \notin Ending /\ stopPc' \in Ending) =>
              \A i \in admittedAtStop' :
                  promise[i] \in Settled /\ promise'[i] \in Settled
        /\ (stopPc \in Ending /\ stopPc' \notin Ending) =>
              \A i \in admittedAtStop :
                  promise[i] \in Settled /\ promise'[i] \in Settled
      ]_vars

\* The stop handler has finished waiting for segments that were admitted
\* before the stop request: one of them failed, one of them completed.
C9_Witness ==
    /\ stopPc \in Ending
    /\ Cardinality(admittedAtStop) = MaxChunks
    /\ \E i \in admittedAtStop : promise[i] = "rej_error"
    /\ \E i \in admittedAtStop : promise[i] = "resolved"

\* The number of transcript events emitted for chunk i.
Transcripts(ev, i) ==
    Cardinality({k \in 1..Len(ev[i]) : ev[i][k] = "transcription"})

Suggestions(ev, i) ==
    Cardinality({k \in 1..Len(ev[i]) : ev[i][k] = "suggestion"})

\* C11: while the stop flag isStopping is set, no suggestions event is emitted
\* to the sink, also not by a segment task whose call of the suggestion
\* backend was in flight when stop was requested.
C11_NoSuggestionWhileStopping ==
    [][ isStopping =>
            \A i \in TaskIds : Suggestions(events', i) = Suggestions(events, i)
      ]_vars

\* The number of error events emitted for chunk i.
Errors(ev, i) ==
    Cardinality({k \in 1..Len(ev[i]) : ev[i][k] = "error"})

\* C12: for a segment whose task threw (its enqueue promise was rejected with
\* the task's error), exactly one error event was emitted to the sink.
C12_OneErrorPerFailure ==
    \A i \in TaskIds : promise[i] = "rej_error" => Errors(events, i) = 1

\* C13: a segment whose task was evicted from the queue by overflow has no
\* error event emitted to the sink for it.
C13_EvictionSilent ==
    \A i \in TaskIds : promise[i] = "rej_dropped" => Errors(events, i) = 0

\* Segments whose processing has completed or was abandoned: the enqueue
\* promise of the segment has settled.
Finished == {i \in TaskIds : promise[i] \in Settled}

\* C14: every segment handed to the pipeline whose processing has completed
\* or was abandoned has its file deleted when deleteAfterTranscription is on
\* and keepForPlayback is off, whatever the path it left through.
C14_StorageReleased ==
    (cleanup.deleteAfterTranscription /\ ~cleanup.keepForPlayback)
        => Finished \subseteq deleted

\* ======================================================== batcher claims ==
\* A step in which addTranscription or checkPauseTimeout is called.
CallStep == call'.n # call.n
AddStep == CallStep /\ call'.op = "add"
CheckStep == CallStep /\ call'.op = "check"

\* The fragment ids of all batches returned so far, in order.
Flushed ==
    LET f[n \in 0..Len(batches)] ==
            IF n = 0 THEN <<>> ELSE f[n - 1] \o batches[n]
    IN  f[Len(batches)]

\* C15: whatever the order of the addTranscription and checkPauseTimeout
\* calls, each accepted fragment is in at most one returned batch, and once
\* only: no two flushes return the same buffered content.
C15_FlushedOnce ==
    \A i, j \in 1..Len(Flushed) : i # j => Flushed[i] # Flushed[j]

\* A flush by addTranscription was followed by a flush by checkPauseTimeout.
C15_Witness ==
    /\ Len(batches) = 2
    /\ call.op = "check"
    /\ call.result # Null
    /\ call.result.words = batches[2]

\* A text that carries nothing new: empty, or under 5 characters.
NoNewText(t) == t.len < MinFragmentLength

\* C16: when addTranscription or checkPauseTimeout returns a batch the buffer
\* is empty right after the call; and an addTranscription call with a text
\* that is empty or under 5 characters returns null and leaves the buffer as
\* it was, so nothing flushed before is returned again.
C16_FlushEmpties ==
    [][ /\ (CallStep /\ call'.result # Null) => transcriptionBuffer' = <<>>
        /\ (AddStep /\ NoNewText(call'.arg)) =>
              /\ call'.result = Null
              /\ transcriptionBuffer' = transcriptionBuffer
      ]_vars

\* A batch was returned, and the call after it was an addTranscription with
\* a text of 4 characters: it returned null on an empty buffer.
C16_Witness ==
    /\ Len(batches) = 1
    /\ call.n = 2
    /\ call.op = "add"
    /\ call.arg.len = 4
    /\ call.result = Null
    /\ transcriptionBuffer = <<>>

\* C17: checkPauseTimeout returns no batch when the buffer is empty; and when
\* the pause threshold has been reached with a non-empty buffer whose joined
\* length is below minBatchSize it returns null and leaves the buffer empty.
C17_PauseDiscard ==
    [][ CheckStep =>
          /\ transcriptionBuffer = <<>> => call'.result = Null
          /\ ( /\ transcriptionBuffer # <<>>
               /\ Ms(now) - lastTranscriptionTime >= pauseThreshold
               /\ Join(transcriptionBuffer).len < minBatchSize )
             => (call'.result = Null /\ transcriptionBuffer' = <<>>)
      ]_vars

\* checkPauseTimeout found two fragments in the buffer, returned null and
\* left the buffer empty: the pause had been reached and the fragments were
\* too short together.
C17_Witness ==
    /\ call.op = "check"
    /\ call.held = 2
    /\ call.result = Null
    /\ transcriptionBuffer = <<>>
    /\ batches = <<>>

\* A fragment of 30..99 characters that does not end in sentence punctuation.
OpenSentence(f) ==
    /\ f.len >= minBatchSize
    /\ f.len < SufficientContent
    /\ f.end # "punct"

\* C18: a returned batch is the concatenation, in the order of acceptance, of
\* all fragments accepted since the last flush, discard or reset.  A single
\* buffered fragment of 30..99 characters without terminal punctuation
\* returns null; adding a fragment that ends in sentence punctuation then
\* returns both, joined, and empties the buffer.
C18_PayloadInOrder ==
    [][ /\ (AddStep /\ call'.result # Null) =>
              call'.result = Join(Append(accepted, Trim(call'.arg)))
        /\ (CheckStep /\ call'.result # Null) => call'.result = Join(accepted)
        /\ (AddStep /\ accepted = <<>> /\ OpenSentence(Trim(call'.arg))) =>
              call'.result = Null
        /\ ( /\ AddStep
             /\ Len(accepted) = 1
             /\ OpenSentence(accepted[1])
             /\ ~NoNewText(call'.arg)
             /\ call'.arg.end = "punct" )
           => /\ call'.result = Join(<<accepted[1], Trim(call'.arg)>>)
              /\ transcriptionBuffer' = <<>>
      ]_vars

\* The second call added a fragment ending in sentence punctuation to one
\* buffered fragment; both came back, in order, in a batch under 100
\* characters.
C18_Witness ==
    /\ call.n = 2
    /\ call.op = "add"
    /\ call.held = 1
    /\ call.result # Null
    /\ call.result.words = <<1, 2>>
    /\ call.result.len < SufficientContent
    /\ call.result.end = "punct"
    /\ transcriptionBuffer = <<>>

\* C19: while a recording session is active and the buffer holds at least
\* minBatchSize characters, the pause timer flushes the buffer once
\* pauseThreshold has elapsed since the last fragment: with a timer period
\* of PauseCheckPeriod, such a buffer is never older than pauseThreshold plus
\* one period.
C19_PauseFlushed ==
    ( /\ isProcessing
      /\ ~isStopping
      /\ transcriptionBuffer # <<>>
      /\ Join(transcriptionBuffer).len >= minBatchSize )
    => Ms(now) - lastTranscriptionTime < pauseThreshold + PauseCheckPeriod

\* ============================================================ VAD claims ==
\* C20: when the quick energy check answers with a definitive verdict (a
\* result without needsFullVAD), the file is not read and decoded in full,
\* _analyzeVoiceActivity is not invoked, and the answer the pipeline gets
\* from analyzeAudio, whose hasVoice decides on transcription, is the quick
\* result.
C20_QuickVerdictFinal ==
    ( /\ vadOut.pc = "done"
      /\ vadOut.quick # NoCall
      /\ ~NeedsFullVAD(vadOut.quick) )
    => /\ ~vadOut.decoded
       /\ ~vadOut.analysed
       /\ vadOut.result = vadOut.quick
       /\ vadOut.result.hasVoice = vadOut.quick.hasVoice

\* The quick check found low energy in the prefix of a file whose full
\* analysis would have found voice: the answer is the quick one.
C20_Witness ==
    /\ vadOut.pc = "done"
    /\ vadOut.quick # NoCall
    /\ ~NeedsFullVAD(vadOut.quick)
    /\ vadOut.quick.reason = "quick_check_low_energy"
    /\ vadIn.file.body = "parsed"
    /\ AnalyzeVoiceActivity(vadIn.file.audio, vadIn.config).hasVoice
    /\ ~vadOut.result.hasVoice

\* ========================================= segment outcome and VAD claims ==
\* The events of chunk i that only a chunk with voice may have.
VoiceEvents(ev, i) ==
    {k \in 1..Len(ev[i]) :
        ev[i][k] \in {"processing", "transcription", "suggestion", "error"}}

\* C21: with VAD enabled, a segment the VAD answered hasVoice false for never
\* reaches the transcription backend (its task is never suspended at the
\* backend call and 'processing' is never announced for it), gets no
\* transcript, suggestion or error event, and when its task settles the
\* promise resolves and totalProcessed, not totalErrors, counts it.
C21_SilentSkipped ==
    [][ \A i \in noVoice' :
          /\ VoiceEvents(events', i) = {}
          /\ taskPc'[i] \in {"ret_novoice", "done"}
          /\ promise'[i] \in {"pending", "resolved"}
          /\ (i \in noVoice /\ promise[i] = "pending" /\ promise'[i] # "pending")
                => /\ stats'.totalProcessed = stats.totalProcessed + 1
                   /\ stats'.totalErrors = stats.totalErrors ]_vars

\* A segment without voice has settled while another segment failed.
C21_Witness ==
    \E i \in noVoice :
        /\ promise[i] = "resolved"
        /\ stats.totalProcessed >= 1
        /\ stats.totalErrors >= 1

\* A WAV file of 50 ms whose samples are all zero: the data chunk is found,
\* the energy of the first samples and of the whole file is 0, and no sample
\* crosses zero.
SilentShort(f) ==
    /\ f.exists /\ f.wav
    /\ f.prefix = "data" /\ f.quickEnergy = 0
    /\ f.body = "parsed" /\ ~f.audio.empty
    /\ f.audio.energy = 0 /\ f.audio.duration = 50 /\ ~f.audio.zcr

\* C22 as stated: for a 50 ms all-silent WAV segment the VAD step answers
\* hasVoice false with reason "too_short" or "silence_detected", and the
\* pipeline skips the transcription.
C22_Original ==
    (vadOut.pc = "done" /\ SilentShort(vadIn.file))
    => /\ ~vadOut.result.hasVoice
       /\ vadOut.result.reason \in {"too_short", "silence_detected"}
       /\ SkipsTranscription(vadOut.result.hasVoice)

\* C22, amended: for a 50 ms all-silent WAV segment the VAD step answers
\* hasVoice false, with reason "quick_check_low_energy" when the quick check
\* is enabled (the default) and "silence_detected" when it is disabled, and
\* the pipeline skips the transcription.
C22_SilentShortSkipped ==
    (vadOut.pc = "done" /\ SilentShort(vadIn.file))
    => /\ ~vadOut.result.hasVoice
       /\ vadOut.result.reason =
             IF vadIn.useQuickCheck THEN "quick_check_low_energy"
             ELSE "silence_detected"
       /\ SkipsTranscription(vadOut.result.hasVoice)

\* The 50 ms silent segment was analysed with the quick check enabled.
C22_Witness ==
    /\ vadOut.pc = "done"
    /\ SilentShort(vadIn.file)
    /\ vadIn.useQuickCheck
    /\ vadOut.result.reason = "quick_check_low_energy"

\* A WAV file holding a sustained tone: the first samples and the whole file
\* have the same energy, more than twice energyThreshold, and the tone lasts
\* at least minSpeechDuration.
SustainedTone(f, cfg) ==
    /\ f.exists /\ f.wav
    /\ f.prefix = "data" /\ f.body = "parsed" /\ ~f.audio.empty
    /\ f.quickEnergy = f.audio.energy
    /\ f.audio.energy > 2 * cfg.energyThreshold
    /\ f.audio.duration >= cfg.minSpeechDuration

\* A WAV file of 2 seconds whose samples are all zero.
SilentLong(f) ==
    /\ f.exists /\ f.wav
    /\ f.prefix = "data" /\ f.quickEnergy = 0
    /\ f.body = "parsed" /\ ~f.audio.empty
    /\ f.audio.energy = 0 /\ f.audio.duration = 2000 /\ ~f.audio.zcr

\* C23: under every threshold configuration, with the quick check enabled or
\* disabled, a sustained tone well above energyThreshold that lasts at least
\* minSpeechDuration is answered hasVoice true, and 2 seconds of all-zero
\* samples are answered hasVoice false.
C23_ToneAndSilence ==
    vadOut.pc = "done"
    => /\ SustainedTone(vadIn.file, vadIn.config) => vadOut.result.hasVoice
       /\ SilentLong(vadIn.file) => ~vadOut.result.hasVoice

\* Malformed input: the file is missing, is not a WAV file, or _parseWavFile
\* rejects it (the RIFF/WAVE marks are wrong or no data subchunk is found).
Malformed(f) == ~f.exists \/ ~f.wav \/ f.body = "unparsable"

\* The full read of the file raised an exception inside analyzeAudio.
ReadThrew == vadOut.decoded /\ vadIn.file.body = "throws"

\* C24: analyzeAudio always answers, and for a missing file, a non-WAV file,
\* an invalid RIFF/WAVE header, a missing data subchunk or an exception
\* raised during the analysis the answer is hasVoice true with confidence
\* 0.5.
C24_FailsOpen ==
    (vadOut.pc = "done" /\ (Malformed(vadIn.file) \/ ReadThrew))
    => /\ vadOut.result.hasVoice
       /\ vadOut.result.confidence = 5

\* C25: when the suggestion backend throws for the batch a segment's
\* fragment flushed, the transcript event of the segment has been emitted
\* before, the stats event is emitted after the failure and no error event
\* is; the task then settles by resolving, counted in totalProcessed and not
\* in totalErrors, and nothing is emitted for a segment whose task has
\* settled.
C25_SuggestionFailureContained ==
    [][ \A i \in TaskIds :
          /\ (taskPc[i] = "suggest" /\ taskPc'[i] = "ret_caught")
                => /\ Transcripts(events, i) = 1
                   /\ events'[i] = Append(events[i], "stats")
                   /\ Errors(events', i) = 0
          /\ taskPc[i] = "ret_caught"
                => /\ events'[i] = events[i]
                   /\ taskPc'[i] \in {"ret_caught", "done"}
                   /\ taskPc'[i] = "done"
                         => /\ promise'[i] = "resolved"
                            /\ stats'.totalProcessed = stats.totalProcessed + 1
                            /\ stats'.totalErrors = stats.totalErrors
          /\ taskPc[i] = "done" => events'[i] = events[i] ]_vars

\* The suggestion call of a segment has thrown: the task stands at its
\* return with the transcript and the stats event emitted and no error event,
\* and no task has failed.
C25_Witness ==
    \E i \in TaskIds :
        /\ taskPc[i] = "ret_caught"
        /\ promise[i] = "pending"
        /\ events[i][Len(events[i])] = "stats"
        /\ Transcripts(events, i) = 1
        /\ Errors(events, i) = 0
        /\ stats.totalErrors = 0

\* ================================================ batcher contracts ==
\* C27: addTranscription(text) with a trimmed length under 5 returns null and
\* leaves the buffer and the time of the last fragment unchanged; otherwise
\* it appends the trimmed fragment and returns a batch, the joined buffer,
\* if and only if the joined length is at least 100, or is at least
\* minBatchSize with sentence punctuation at the end; a returned batch
\* leaves the buffer empty.
C27_AddContract ==
    [][ AddStep =>
          LET t == call'.arg
              buf == Append(transcriptionBuffer,
                            [words |-> t.words, len |-> t.len, end |-> t.end])
              text == Join(buf)
              flush == \/ text.len >= 100
                       \/ text.len >= minBatchSize /\ text.end = "punct"
          IN  IF t.len < 5
              THEN /\ call'.result = Null
                   /\ transcriptionBuffer' = transcriptionBuffer
                   /\ lastTranscriptionTime' = lastTranscriptionTime
              ELSE /\ (call'.result # Null) <=> flush
                   /\ flush => (call'.result = text
                                /\ transcriptionBuffer' = <<>>)
                   /\ ~flush => transcriptionBuffer' = buf ]_vars

\* A fragment ending a sentence joined a buffered fragment and the two, 30 to
\* 99 characters together, were returned as a batch.
C27_Witness ==
    /\ call.op = "add"
    /\ call.held = 1
    /\ call.result # Null
    /\ call.result.len >= minBatchSize
    /\ call.result.len < 100
    /\ call.result.end = "punct"
    /\ call.arg.len < minBatchSize

\* C28: every accepted fragment restarts the pause clock; checkPauseTimeout
\* returns a batch only if at least pauseThreshold has elapsed since the
\* most recently accepted fragment; when less has elapsed it returns null
\* and leaves the buffer unchanged; and when the threshold is reached and the
\* joined length is at least minBatchSize it returns the whole buffer,
\* whatever its size and its last character.
C28_PauseContract ==
    [][ /\ (AddStep /\ call'.arg.len >= 5)
              => lastTranscriptionTime' = Ms(now)
        /\ CheckStep =>
              LET elapsed == Ms(now) - lastTranscriptionTime
                  text == Join(transcriptionBuffer)
              IN  /\ call'.result # Null
                        => (transcriptionBuffer # <<>>
                            /\ elapsed >= pauseThreshold)
                  /\ (transcriptionBuffer # <<>> /\ elapsed < pauseThreshold)
                        => /\ call'.result = Null
                           /\ transcriptionBuffer' = transcriptionBuffer
                  /\ ( /\ transcriptionBuffer # <<>>
                       /\ elapsed >= pauseThreshold
                       /\ text.len >= minBatchSize )
                        => call'.result = text ]_vars

\* checkPauseTimeout returned an open sentence of 30 to 99 characters, made
\* of two fragments, five seconds or more after the second one.
C28_Witness ==
    /\ call.op = "check"
    /\ call.held = 2
    /\ call.result # Null
    /\ call.result.len < 100
    /\ call.result.end # "punct"
    /\ Len(call.result.words) = 2

\* ================================================== quick check claims ==
\* The quick check ran on a WAV file in whose prefix it found the data chunk.
QuickClassified ==
    /\ vadOut.pc = "done"
    /\ vadIn.useQuickCheck
    /\ vadIn.file.exists /\ vadIn.file.wav
    /\ vadIn.file.prefix = "data"

\* C29: for a parsable WAV prefix the quick check classifies by the energy e
\* of the first samples, under every configured pair of thresholds, by the
\* first case that applies: hasVoice true with confidence 0.8 and reason
\* quick_check_high_energy if e > 2 * energyThreshold; hasVoice false with
\* confidence 0.2 and reason quick_check_low_energy if e < silenceThreshold;
\* needsFullVAD with the energy otherwise (a NaN energy compares false).
C29_QuickClasses ==
    QuickClassified =>
        LET e == vadIn.file.quickEnergy
            number == e >= 0
            cfg == vadIn.config
        IN  vadOut.quick =
                IF number /\ e > 2 * cfg.energyThreshold
                THEN [hasVoice |-> TRUE, confidence |-> 8, energy |-> e,
                      reason |-> "quick_check_high_energy"]
                ELSE IF number /\ e < cfg.silenceThreshold
                THEN [hasVoice |-> FALSE, confidence |-> 2, energy |-> e,
                      reason |-> "quick_check_low_energy"]
                ELSE [needsFullVAD |-> TRUE, energy |-> e]

\* Under thresholds set at run time, an energy of exactly twice
\* energyThreshold was classified as uncertain.
C29_Witness ==
    /\ QuickClassified
    /\ vadIn.config # VadDefaults
    /\ vadIn.file.quickEnergy = 2 * vadIn.config.energyThreshold
    /\ vadIn.file.quickEnergy >= vadIn.config.silenceThreshold
    /\ NeedsFullVAD(vadOut.quick)

\* C30: when the quick check fails to parse a WAV file (no data subchunk in
\* the scanned prefix, a truncated header, a read exception) it answers
\* needsFullVAD and never a definitive hasVoice verdict.
C30_QuickParseFailure ==
    ( /\ vadOut.pc = "done"
      /\ vadIn.useQuickCheck
      /\ vadIn.file.exists /\ vadIn.file.wav
      /\ vadIn.file.prefix \in {"nodata", "throws"} )
    => /\ NeedsFullVAD(vadOut.quick)
       /\ "hasVoice" \notin DOMAIN vadOut.quick

\* =================================================== full analysis claims ==
\* _analyzeVoiceActivity ran on the samples of a parsed, non-empty segment.
FullyAnalysed ==
    /\ vadOut.pc = "done"
    /\ vadOut.analysed
    /\ ~vadIn.file.audio.empty

\* C31: for a parsed non-empty segment of energy e and duration d the full
\* analysis answers hasVoice true if and only if e > energyThreshold and
\* d >= minSpeechDuration and not (e < silenceThreshold and d < 1000 ms);
\* the reason is "too_short" only when the energy test passed, and
\* "silence_detected" never for a segment of 1000 ms or longer.
C31_FullVerdict ==
    FullyAnalysed =>
        LET e == vadIn.file.audio.energy
            d == vadIn.file.audio.duration
            cfg == vadIn.config
        IN  /\ vadOut.result.hasVoice <=>
                  ( /\ e > cfg.energyThreshold
                    /\ d >= cfg.minSpeechDuration
                    /\ ~(e < cfg.silenceThreshold /\ d < 1000) )
            /\ vadOut.result.reason = "too_short" => e > cfg.energyThreshold
            /\ vadOut.result.reason = "silence_detected" => d < 1000

\* A segment louder than energyThreshold but shorter than minSpeechDuration
\* was answered hasVoice false, too_short.
C31_Witness ==
    /\ FullyAnalysed
    /\ vadIn.file.audio.energy > vadIn.config.energyThreshold
    /\ vadIn.file.audio.duration < vadIn.config.minSpeechDuration
    /\ ~vadOut.result.hasVoice
    /\ vadOut.result.reason = "too_short"

\* ========================================================= retry claims ==
\* A retryable error: status 429, a status of 500 or more, or one of the
\* three network codes.
Retryable(e) ==
    \/ e.status = 429
    \/ e.status >= 500
    \/ e.code = "ECONNRESET" \/ e.code = "ETIMEDOUT" \/ e.code = "ENOTFOUND"

\* C32: for each segment the gateway calls the backend at most 3 times and
\* calls it again only after a retryable error; a first error that is not
\* retryable is thrown after exactly one call; the gateway ends with a
\* result or with the error of its latest call (after 3 calls, or after an
\* error that is not retryable); and when it throws, the segment's task
\* rejects and is counted in totalErrors.
C32_BoundedRetry ==
    [][ /\ tx'.calls <= 3
        /\ (tx.pc # "idle" /\ tx'.calls > tx.calls)
              => (tx'.calls = tx.calls + 1 /\ Retryable(tx.last))
        /\ (tx.pc = "calling" /\ tx.calls = 1 /\ tx'.last # tx.last
            /\ ~Retryable(tx'.last))
              => (tx'.pc = "threw" /\ tx'.calls = 1)
        /\ (tx.pc = "calling" /\ tx' # tx)
              => tx'.pc \in {"returned", "sleeping", "threw"}
        /\ tx'.pc = "sleeping" => tx'.calls < 3
        /\ tx'.pc = "threw"
              => /\ tx'.thrown = tx'.last
                 /\ tx'.calls = 3 \/ ~Retryable(tx'.last)
        /\ (tx.pc = "threw" /\ tx'.pc # "threw")
              => /\ promise'[tx.id] = "rej_error"
                 /\ stats'.totalErrors = stats.totalErrors + 1
                 /\ stats'.totalProcessed = stats.totalProcessed
      ]_vars

\* The gateway throws after three backend calls that all failed with
\* retryable errors, the last one a rate limit, and the task of an earlier
\* segment has been rejected.
C32_Witness ==
    /\ tx.pc = "threw"
    /\ tx.calls = 3
    /\ tx.thrown.status = 429
    /\ stats.totalErrors >= 1

\* ================================================ segment task claims ==
\* C33: a transcript event is emitted for a segment only in the step that
\* ends its transcription call with text; when the backend signals silence
\* or empty text, no transcript event is emitted, meeting history and the
\* batcher buffer are unchanged, and the task then resolves, counted in
\* totalProcessed and not in totalErrors.
C33_SilenceSkipped ==
    [][ \A i \in TaskIds :
          /\ Transcripts(events', i) > Transcripts(events, i)
                => /\ taskPc[i] = "transcribe"
                   /\ taskPc'[i] \in {"suggest", "ret_ok"}
          /\ (taskPc[i] = "transcribe" /\ taskPc'[i] = "ret_notext")
                => /\ events'[i] = events[i]
                   /\ history' = history
                   /\ transcriptionBuffer' = transcriptionBuffer
          /\ taskPc[i] = "ret_notext"
                => /\ events'[i] = events[i]
                   /\ taskPc'[i] \in {"ret_notext", "done"}
                   /\ taskPc'[i] = "done"
                         => /\ promise'[i] = "resolved"
                            /\ stats'.totalProcessed = stats.totalProcessed + 1
                            /\ stats'.totalErrors = stats.totalErrors ]_vars

\* The backend answered silence for a segment while the fragment of an
\* earlier segment is in the batcher buffer and in meeting history.
C33_Witness ==
    \E i \in TaskIds :
        /\ taskPc[i] = "ret_notext"
        /\ Transcripts(events, i) = 0
        /\ transcriptionBuffer # <<>>
        /\ history # {}
        /\ i \notin history

\* The positions of the events called name among the events of one segment.
Pos(ev, name) == {k \in 1..Len(ev) : ev[k] = name}

\* The events of one segment are in the order of _processChunkInternal: the
\* segment-received notice first and once, the transcript event before the
\* suggestions event, and both before the stats event.
InOrder(ev) ==
    /\ ev # <<>> => Pos(ev, "audio-chunk") = {1}
    /\ \A a \in Pos(ev, "transcription"), b \in Pos(ev, "suggestion") : a < b
    /\ \A a \in Pos(ev, "transcription") \cup Pos(ev, "suggestion"),
          b \in Pos(ev, "stats") : a < b

\* Segment i's fragment is handed to the batcher in this step.
Fed(i) ==
    /\ taskPc[i] = "transcribe"
    /\ taskPc'[i] # "transcribe"
    /\ AddStep

\* C34: for each segment the events reach the sink in this order: the
\* segment-received notice before anything else of that segment, then its
\* transcript event, then the suggestions event (if any), then its stats
\* event; and a fragment is in meeting history when it is passed to the
\* batcher.
C34_EventOrder ==
    [][ \A i \in TaskIds :
          /\ InOrder(events'[i])
          /\ Fed(i) => i \in history' ]_vars

\* ===================================================== queue accounting ==
\* clear() has rejected at least one queued item.  (clear() on an empty queue
\* changes nothing.)
ClearCalled == \E i \in TaskIds : promise[i] = "rej_cleared"

\* C35: as long as clear() is not called, in every state totalQueued =
\* totalProcessed + totalErrors + totalDropped + the queue length + the
\* number of tasks in flight.
C35_Conserved ==
    ~ClearCalled =>
        stats.totalQueued =
            stats.totalProcessed + stats.totalErrors + stats.totalDropped
                + Len(queue) + Cardinality(processing)

\* clear() was never called and every term of the sum is positive.
C35_Witness ==
    /\ ~ClearCalled
    /\ stats.totalProcessed > 0
    /\ stats.totalErrors > 0
    /\ stats.totalDropped > 0
    /\ Len(queue) > 0
    /\ Cardinality(processing) > 0

\* The tasks the queue has started, in the order of their start, hold no task
\* twice.
StartedOnce ==
    \A a, b \in 1..Len(startLog) : startLog[a] = startLog[b] => a = b

\* C36: every promise returned by enqueue is settled exactly once: a settled
\* promise keeps its outcome, a task rejected as dropped (or cleared) was
\* never started and is never started afterwards, and no task is started more
\* than once.
C36_SettledOnce ==
    [][ /\ \A i \in TaskIds :
              /\ promise[i] \in Settled => promise'[i] = promise[i]
              /\ promise'[i] \in {"rej_dropped", "rej_cleared"}
                    => i \notin SeqSet(startLog')
              /\ promise'[i] \in {"resolved", "rej_error"}
                    => i \in SeqSet(startLog')
        /\ StartedOnce' ]_vars

\* One task was evicted, a task enqueued after it has run to completion and
\* another has failed, and a further task is in flight.
C36_Witness ==
    \E i, j, k \in TaskIds :
        /\ i < j /\ i < k
        /\ promise[i] = "rej_dropped"
        /\ promise[j] = "resolved"
        /\ promise[k] = "rej_error"
        /\ processing # {}

\* ======================================================= queue progress ==
Queued(i) == i \in SeqSet(queue)
Started(i) == i \in SeqSet(startLog)

\* C37 as stated: when every started task terminates, a queued task is
\* eventually started unless a further enqueue evicts it, and a pending
\* waitForCompletion() eventually resolves.
C37_Original ==
    /\ \A i \in TaskIds :
          Queued(i) ~> (Started(i) \/ promise[i] = "rej_dropped")
    /\ (waiter.pc = "sleeping") ~> (waiter.pc = "resolved")

\* C37: when every started task terminates, a queued task is eventually
\* started unless a further enqueue evicts it or clear() rejects it, and a
\* pending waitForCompletion() eventually resolves once no further task is
\* enqueued.
C37_Progress ==
    /\ \A i \in TaskIds :
          Queued(i) ~> (Started(i) \/ promise[i] \in {"rej_dropped",
                                                       "rej_cleared"})
    /\ (waiter.pc = "sleeping") ~> (waiter.pc = "resolved")

\* Every task has been enqueued; a task that had to wait in the queue was
\* started and has ended, and waitForCompletion() has resolved after at least
\* one turn of its timer.
C37_Witness ==
    /\ NextId > MaxTasks
    /\ waiter.pc = "resolved" /\ waiter.slept
    /\ ~ClearCalled
    /\ \E i \in TaskIds :
          /\ promise[i] = "resolved"
          /\ \E k \in 1..Len(startLog) : startLog[k] = i /\ k > maxConcurrent

\* ======================================================= session claims ==
\* handleStopRecording has set the flags and is suspended before it emits
\* recording-stopped: at the timer of waitForCompletion (line 298) or at the
\* PDF of endMeeting() (line 314), where other requests are served.
StopPending == stopPc \in {"waiting", "ending"}

\* C38: from the moment a stop request sets isStopping until the stop handler
\* has ended the meeting and emitted recording-stopped, no new session
\* begins: no step taken while the stop handler is pending resets isStopping
\* or sets isProcessing, and a segment admitted before the stop emits no
\* transcript event meanwhile.
C38_NoRestartWhileStopping ==
    [][ StopPending =>
            /\ isStopping'
            /\ ~isProcessing'
            /\ \A i \in admittedAtStop :
                  Transcripts(events', i) = Transcripts(events, i) ]_vars

\* C39: the session flags isProcessing and isStopping are never both true,
\* after any sequence of start requests (failed ones included), stop
\* requests, client disconnects and capture-error callbacks.
C39_FlagsExclusive == ~(isProcessing /\ isStopping)

\* A start request was served while a stop handler was still waiting for a
\* segment of the stopped session: the start has set isProcessing and reset
\* isStopping.
C39_Witness ==
    /\ isProcessing
    /\ ~isStopping
    /\ stopPc = "waiting"
    /\ \E i \in admittedAtStop : i \in processing

\* ===================================================== batcher invariant ==
\* C40: after every SuggestionBatcher operation the buffer is empty or not
\* flush-eligible: its joined length is below 100, and it is shorter than
\* minBatchSize or does not end in sentence punctuation.
C40_NoEligiblePending ==
    transcriptionBuffer # <<>> =>
        LET text == Join(transcriptionBuffer)
        IN  /\ text.len < SufficientContent
            /\ text.len < minBatchSize \/ text.end # "punct"

\* Two fragments are pending whose joined text has reached minBatchSize but
\* is an open sentence, and checkPauseTimeout() has returned without
\* touching them.
C40_Witness ==
    /\ Len(transcriptionBuffer) >= 2
    /\ Join(transcriptionBuffer).len >= minBatchSize
    /\ call.op = "check"
    /\ call.result = Null

====
